---- MODULE Spec2Model ----
(***************************************************************************)
(* The CSV import action of the metafield importer, in its two route       *)
(* variants:                                                               *)
(*   "index"  src/app/routes/app._index.tsx  (returns { log })             *)
(*   "part"   src/unnamed/part_000           (returns { status, log })     *)
(*                                                                         *)
(* A string is a sequence of one-character strings.  A log line and a      *)
(* mutation text are sequences whose elements are either one character of  *)
(* a row value or one fixed piece of the template the code writes.  The    *)
(* module is ASCII only, so the pictographs of the source's log lines are  *)
(* written (x), (warn), (check), the arrow -> and the dash --.             *)
(***************************************************************************)
EXTENDS Naturals, Sequences, FiniteSets, TLC

VARIABLES
    file,       \* the "file" field of the submitted form, the same for both routes
    responses,  \* what admin.graphql has answered so far, call by call
    pc,         \* pc[v]: where the action of route v stands
    rows,       \* rows[v]: the decoded rows
    idx,        \* idx[v]: the position of the row loop
    finalLog,   \* finalLog[v]
    calls,      \* calls[v]: the admin.graphql calls issued, in order
    inflight,   \* inflight[v]: calls issued and not yet settled
    result      \* result[v]: the value the action returned

vars == <<file, responses, pc, rows, idx, finalLog, calls, inflight, result>>

Variants == {"index", "part"}

\* Most data rows a CSV of the model has.
MaxRows == 2

--------------------------------------------------------------------------
(* JavaScript values                                                       *)

Undefined == [t |-> "undefined"]
Null == [t |-> "null"]
Str(s) == [t |-> "string", s |-> s]
Obj(fields) == [t |-> "object", fields |-> fields]
Arr(items) == [t |-> "array", items |-> items]
NoFields == [k \in {} |-> Undefined]

Nullish(v) == v.t \in {"undefined", "null"}

\* o.k : the property, undefined when o has none.  On a nullish o the plain
\* access throws a TypeError and the optional access o?.k gives undefined.
Get(o, k) ==
    IF o.t = "object" /\ k \in DOMAIN o.fields THEN o.fields[k] ELSE Undefined

Range(s) == {s[j] : j \in 1..Len(s)}

--------------------------------------------------------------------------
(* Strings                                                                 *)

Space == " "
Quote == "\""
Backslash == "\\"

IsWhite(c) == c = Space

\* String.prototype.trim: leading and trailing white space removed.
RECURSIVE TrimStart(_)
TrimStart(s) ==
    IF s # <<>> /\ IsWhite(Head(s)) THEN TrimStart(Tail(s)) ELSE s

RECURSIVE TrimEnd(_)
TrimEnd(s) ==
    IF s # <<>> /\ IsWhite(s[Len(s)])
    THEN TrimEnd(SubSeq(s, 1, Len(s) - 1))
    ELSE s

Trim(s) == TrimEnd(TrimStart(s))

\* v.replace(/\\/g, "\\\\") and v.replace(/"/g, '\\"'): every occurrence of
\* character c replaced by the two characters backslash, c.
RECURSIVE ReplaceAll(_, _)
ReplaceAll(s, c) ==
    IF s = <<>> THEN <<>>
    ELSE (IF Head(s) = c THEN <<Backslash, c>> ELSE <<Head(s)>>)
         \o ReplaceAll(Tail(s), c)

\* errors.map(e => e.message).join(", ")
RECURSIVE Join(_)
Join(msgs) ==
    IF msgs = <<>> THEN <<>>
    ELSE IF Len(msgs) = 1 THEN Head(msgs)
    ELSE Head(msgs) \o <<", ">> \o Join(Tail(msgs))

--------------------------------------------------------------------------
(* The uploaded file and csv-parse                                         *)

NoFile == [kind |-> "none"]
Csv(header, records) == [kind |-> "csv", header |-> header, records |-> records]

RequiredHeaders == <<"Name", "Key", "Type">>

\* parse(buffer, { columns: true, skip_empty_lines: true }): the first line
\* names the columns and every later line becomes one row, a mapping from
\* column name to cell; a line whose cell count differs from the header's
\* makes parse throw.
ParseOk(f) ==
    \A j \in 1..Len(f.records) : Len(f.records[j]) = Len(f.header)

ColumnOf(header, h) == CHOOSE c \in 1..Len(header) : header[c] = h

Parse(f) ==
    [j \in 1..Len(f.records) |->
        [h \in Range(f.header) |-> f.records[j][ColumnOf(f.header, h)]]]

\* row.Name?.trim(): undefined when the row has no such column.
TrimField(row, h) ==
    IF h \in DOMAIN row THEN Str(Trim(row[h])) ELSE Undefined

\* !name : undefined or the empty string.
Falsy(v) == Nullish(v) \/ (v.t = "string" /\ v.s = <<>>)

--------------------------------------------------------------------------
(* Log lines                                                               *)

NoFileLog == << <<"(x) No file uploaded">> >>
EmptyLog == << <<"(x) CSV file is empty">> >>

InvalidLogIndex ==
    << <<"(x) Invalid CSV format.">>,
       <<"This app only accepts a Metafield Definitions CSV.">>,
       <<"Required columns:">>,
       <<"Name, Key, Type, Description">>,
       <<>>, <<>>, <<>> >>

InvalidLogPart ==
    << <<"(x) Invalid CSV format.">>,
       <<"Required columns:">>,
       <<"Name, Key, Type, Description">> >>

SkippedLine == <<"(warn) Skipped row -- missing name/key/type">>
CreatedLine(n, k) == <<"(check) Created metafield: ">> \o n \o <<" (">> \o k \o <<")">>
ErrorsLine(n, msgs) == <<"(warn) ">> \o n \o <<" -> ">> \o Join(msgs)
UnknownLine(n) == <<"(warn) Unknown response for ">> \o n
FailedLine(n, msg) == <<"(x) Failed for ">> \o n \o <<" -> ">> \o msg

--------------------------------------------------------------------------
(* Before the row loop                                                     *)

Returned(r) == [pc |-> "done", rows |-> <<>>, result |-> r]
Threw == [pc |-> "threw", rows |-> <<>>, result |-> Undefined]
Looping(rs) == [pc |-> "loop", rows |-> rs, result |-> Undefined]

\* A slip: the column names compared without regard to case.
HeadersAnyCase(rs) ==
    IF Len(rs) = 0 THEN {}
    ELSE DOMAIN rs[1] \cup (IF "name" \in DOMAIN rs[1] THEN {"Name"} ELSE {})

\* Object.keys(rows[0] || {})
Headers(rs) == IF Len(rs) = 0 THEN {} ELSE DOMAIN rs[1]

\* requiredHeaders.filter((h) => !headers.includes(h))
MissingHeaders(rs) == SelectSeq(RequiredHeaders, LAMBDA h : h \notin Headers(rs))

IntakeIndex(f) ==
    IF f = NoFile THEN Returned([log |-> NoFileLog])
    ELSE IF ~ParseOk(f) THEN Threw
    ELSE LET rs == Parse(f) IN
         IF Len(MissingHeaders(rs)) > 0
         THEN Returned([log |-> InvalidLogIndex])
         ELSE Looping(rs)

IntakePart(f) ==
    IF f = NoFile THEN Returned([status |-> "error", log |-> NoFileLog])
    ELSE IF ~ParseOk(f) THEN Threw
    ELSE LET rs == Parse(f) IN
         IF Len(rs) = 0
         THEN Returned([status |-> "error", log |-> EmptyLog])
         ELSE IF Len(MissingHeaders(rs)) > 0
         THEN Returned([status |-> "error", log |-> InvalidLogPart])
         ELSE Looping(rs)

Intake(v, f) == IF v = "index" THEN IntakeIndex(f) ELSE IntakePart(f)

--------------------------------------------------------------------------
(* One row: its fields and its mutation text                               *)

\* row.Description?.trim() || ""
DescriptionOf(row) ==
    LET d == TrimField(row, "Description") IN IF Falsy(d) THEN <<>> ELSE d.s

\* A slip: the required cells tested as they came, not trimmed.
SkipsUntrimmed(row) ==
    \E h \in {"Name", "Key", "Type"} : h \notin DOMAIN row \/ row[h] = <<>>

\* !name || !key || !type
Skips(row) ==
    \/ Falsy(TrimField(row, "Name"))
    \/ Falsy(TrimField(row, "Key"))
    \/ Falsy(TrimField(row, "Type"))

\* The fixed pieces of the template literal, between the interpolations.
TplName == "mutation { metafieldDefinitionCreate( definition: { name: "
TplKey == " namespace: \"custom\" key: "
TplType == " type: "
TplDescription == " description: "
TplEnd == " ownerType: PRODUCT } ) { createdDefinition { id name key } userErrors { message } } }"

Template(n, k, t, d) ==
    <<TplName, Quote>> \o n \o <<Quote, TplKey, Quote>> \o k
    \o <<Quote, TplType, Quote>> \o t \o <<Quote, TplDescription, Quote>> \o d
    \o <<Quote, TplEnd>>

\* const esc = (v) => v.replace(/\\/g, "\\\\").replace(/"/g, '\\"')
esc(s) == ReplaceAll(ReplaceAll(s, Backslash), Quote)

MutationIndex(n, k, t, d) == Template(n, k, t, d)

\* A slip: the name interpolated where the key belongs.
MutationPartNameAsKey(n, k, t, d) == Template(esc(n), esc(n), esc(t), esc(d))

MutationPart(n, k, t, d) == Template(esc(n), esc(k), esc(t), esc(d))

Mutation(v, row) ==
    LET n == TrimField(row, "Name").s
        k == TrimField(row, "Key").s
        t == TrimField(row, "Type").s
        d == DescriptionOf(row)
    IN  IF v = "index" THEN MutationIndex(n, k, t, d) ELSE MutationPart(n, k, t, d)

--------------------------------------------------------------------------
(* The answer of admin.graphql and the line it gives                       *)

Throws(msg) == [kind |-> "throw", message |-> msg]
Answers(json) == [kind |-> "json", json |-> json]

\* What the try block comes to: a line to push, or an exception's message.
Pushes(line) == [threw |-> FALSE, line |-> line]
Raises(msg) == [threw |-> TRUE, message |-> msg]

\* V8's message for a property read on undefined or null.
TypeError(v, prop) ==
    <<"Cannot read properties of ", v.t, " (reading '", prop, "')">>

\* e.message of each user error
Messages(errors) == [j \in 1..Len(errors.items) |-> Get(errors.items[j], "message").s]

\* A slip: the user errors looked at before the created definition.
LineOfErrorsFirst(created, errors, n, k) ==
    IF ~Nullish(errors) /\ Len(errors.items) > 0
    THEN ErrorsLine(n, Messages(errors))
    ELSE IF ~Nullish(created) THEN CreatedLine(n, k)
    ELSE UnknownLine(n)

\* if (created) ... else if (errors?.length) ... else ...
LineOf(created, errors, n, k) ==
    IF ~Nullish(created) THEN CreatedLine(n, k)
    ELSE IF ~Nullish(errors) /\ Len(errors.items) > 0
    THEN ErrorsLine(n, Messages(errors))
    ELSE UnknownLine(n)

\* json.data.metafieldDefinitionCreate.createdDefinition, and .userErrors
TryIndex(json, n, k) ==
    LET data == Get(json, "data")
        mdc == Get(data, "metafieldDefinitionCreate")
    IN  IF Nullish(data) THEN Raises(TypeError(data, "metafieldDefinitionCreate"))
        ELSE IF Nullish(mdc) THEN Raises(TypeError(mdc, "createdDefinition"))
        ELSE Pushes(LineOf(Get(mdc, "createdDefinition"), Get(mdc, "userErrors"), n, k))

\* json.data?.metafieldDefinitionCreate?.createdDefinition, and ?.userErrors
TryPart(json, n, k) ==
    LET data == Get(json, "data")
        mdc == Get(data, "metafieldDefinitionCreate")
    IN  Pushes(LineOf(Get(mdc, "createdDefinition"), Get(mdc, "userErrors"), n, k))

\* try { ... } catch (err) { finalLog.push(`... Failed for ${name} ... ${err.message}`) }
Caught(attempt, n) ==
    IF attempt.threw THEN FailedLine(n, attempt.message) ELSE attempt.line

Settle(v, answer, row) ==
    LET n == TrimField(row, "Name").s
        k == TrimField(row, "Key").s
    IN  IF answer.kind = "throw" THEN Caught(Raises(answer.message), n)
        ELSE IF v = "index" THEN Caught(TryIndex(answer.json, n, k), n)
        ELSE Caught(TryPart(answer.json, n, k), n)

--------------------------------------------------------------------------
(* The inputs of the model                                                 *)

\* The cells of one line, as <<Name, Key, Type, Description>>: padded with
\* white space, holding double quotes and backslashes, and three with a
\* required cell empty or blank.
CellPool ==
    { << <<" ", "b", " ">>, <<"k", " ">>, <<" ", "t">>, <<" ", "d", " ">> >>,
      << <<"c", Quote>>, <<"k", Backslash>>, <<"t">>, <<Backslash, Quote>> >>,
      << <<>>, <<"k">>, <<"t">>, <<"d">> >>,
      << <<"f">>, <<" ">>, <<"t">>, <<>> >>,
      << <<"g">>, <<"k">>, <<>>, <<>> >> }

\* Header lines: the four columns; no Description, one more column and
\* another order; Name in lower case; no Type.
HeaderPool ==
    { <<"Name", "Key", "Type", "Description">>,
      <<"Key", "Extra", "Name", "Type">>,
      <<"name", "Key", "Type", "Description">>,
      <<"Name", "Key", "Description">> }

CellFor(h, cells) ==
    CASE h \in {"Name", "name"} -> cells[1]
      [] h = "Key" -> cells[2]
      [] h = "Type" -> cells[3]
      [] h = "Description" -> cells[4]
      [] OTHER -> <<"x">>

Line(header, cells) == [c \in 1..Len(header) |-> CellFor(header[c], cells)]

\* A file whose one data line has three cells under four columns.
ShortLineFile ==
    Csv(<<"Name", "Key", "Type", "Description">>, << << <<"a">>, <<"k">>, <<"t">> >> >>)

Files ==
    {NoFile, ShortLineFile, Csv(<<>>, <<>>)}
    \cup { Csv(h, [j \in 1..n |-> Line(h, cs[j])]) :
             <<h, n, cs>> \in { <<h, n, cs>> \in
                 HeaderPool \X (0..MaxRows) \X UNION {[1..m -> CellPool] : m \in 0..MaxRows} :
                     DOMAIN cs = 1..n } }

Message(s) == Obj([message |-> Str(<<s>>)])
Reply(created, errors) ==
    Answers(Obj([data |-> Obj([metafieldDefinitionCreate |->
        Obj([createdDefinition |-> created, userErrors |-> Arr(errors)])])]))

AnswerPool ==
    { Reply(Obj([id |-> Str(<<"gid">>)]), <<>>),
      Reply(Null, <<Message("Key already exists"), Message("Type is invalid")>>),
      Reply(Null, <<>>),
      Reply(Obj([id |-> Str(<<"gid">>)]), <<Message("Deprecated type")>>),
      Answers(Obj([data |-> Obj(NoFields)])),
      Answers(Obj([errors |-> Arr(<<Message("Throttled")>>)])),
      Throws(<<"fetch failed">>) }

--------------------------------------------------------------------------
(* The state machine                                                       *)

Init ==
    /\ file \in Files
    /\ responses = <<>>
    /\ pc = [v \in Variants |-> "idle"]
    /\ rows = [v \in Variants |-> <<>>]
    /\ idx = [v \in Variants |-> 1]
    /\ finalLog = [v \in Variants |-> <<>>]
    /\ calls = [v \in Variants |-> <<>>]
    /\ inflight = [v \in Variants |-> 0]
    /\ result = [v \in Variants |-> Undefined]

\* The form is posted to route v: the action runs up to its row loop.  The
\* two routes get the same file, as two independent submissions.
Submit(v) ==
    /\ pc[v] = "idle"
    /\ LET got == Intake(v, file) IN
        /\ pc' = [pc EXCEPT ![v] = got.pc]
        /\ rows' = [rows EXCEPT ![v] = got.rows]
        /\ result' = [result EXCEPT ![v] = got.result]
    /\ UNCHANGED <<file, responses, idx, finalLog, calls, inflight>>

\* A slip: a skipped row passed over without its line.
NextRowSilentSkip(v) ==
    /\ pc[v] = "loop"
    /\ idx[v] <= Len(rows[v])
    /\ LET row == rows[v][idx[v]] IN
        IF Skips(row)
        THEN /\ idx' = [idx EXCEPT ![v] = @ + 1]
             /\ UNCHANGED <<pc, calls, inflight, finalLog>>
        ELSE /\ calls' = [calls EXCEPT ![v] =
                    Append(@, [row |-> idx[v], mutation |-> Mutation(v, row)])]
             /\ inflight' = [inflight EXCEPT ![v] = @ + 1]
             /\ pc' = [pc EXCEPT ![v] = "await"]
             /\ UNCHANGED <<idx, finalLog>>
    /\ UNCHANGED <<file, responses, rows, result>>

\* One turn of for (const row of rows), up to continue or to the await.
NextRow(v) ==
    /\ pc[v] = "loop"
    /\ idx[v] <= Len(rows[v])
    /\ LET row == rows[v][idx[v]] IN
        IF Skips(row)
        THEN /\ finalLog' = [finalLog EXCEPT ![v] = Append(@, SkippedLine)]
             /\ idx' = [idx EXCEPT ![v] = @ + 1]
             /\ UNCHANGED <<pc, calls, inflight>>
        ELSE /\ calls' = [calls EXCEPT ![v] =
                    Append(@, [row |-> idx[v], mutation |-> Mutation(v, row)])]
             /\ inflight' = [inflight EXCEPT ![v] = @ + 1]
             /\ pc' = [pc EXCEPT ![v] = "await"]
             /\ UNCHANGED <<idx, finalLog>>
    /\ UNCHANGED <<file, responses, rows, result>>

\* A slip: a call that threw is made again for the same row.
GraphqlSettlesRetry(v) ==
    /\ pc[v] = "await"
    /\ LET c == Len(calls[v]) IN
        \E answer \in (IF c <= Len(responses) THEN {responses[c]} ELSE AnswerPool) :
            /\ responses' = IF c <= Len(responses) THEN responses
                            ELSE Append(responses, answer)
            /\ IF answer.kind = "throw"
               THEN UNCHANGED <<finalLog, idx>>
               ELSE /\ finalLog' = [finalLog EXCEPT ![v] =
                            Append(@, Settle(v, answer, rows[v][idx[v]]))]
                    /\ idx' = [idx EXCEPT ![v] = @ + 1]
    /\ inflight' = [inflight EXCEPT ![v] = @ - 1]
    /\ pc' = [pc EXCEPT ![v] = "loop"]
    /\ UNCHANGED <<file, rows, calls, result>>

\* The awaited admin.graphql call and resp.json() settle: the rest of the try
\* block, or the catch block, pushes the row's line.  The service answers a
\* call as it answered the same call of the other route, if it did.
GraphqlSettles(v) ==
    /\ pc[v] = "await"
    /\ LET c == Len(calls[v]) IN
        \E answer \in (IF c <= Len(responses) THEN {responses[c]} ELSE AnswerPool) :
            /\ responses' = IF c <= Len(responses) THEN responses
                            ELSE Append(responses, answer)
            /\ finalLog' = [finalLog EXCEPT ![v] =
                    Append(@, Settle(v, answer, rows[v][idx[v]]))]
    /\ inflight' = [inflight EXCEPT ![v] = @ - 1]
    /\ idx' = [idx EXCEPT ![v] = @ + 1]
    /\ pc' = [pc EXCEPT ![v] = "loop"]
    /\ UNCHANGED <<file, rows, calls, result>>

\* A slip: the status taken from the rows' lines.
ReturnPartByRows(log) ==
    [status |-> IF \E j \in 1..Len(log) : log[j][1] = "(check) Created metafield: "
                THEN "success" ELSE "error",
     log |-> log]

ReturnIndex(log) == [log |-> log]
ReturnPart(log) == [status |-> "success", log |-> log]

\* return { log: finalLog } and return { status: "success", log: finalLog }
Finish(v) ==
    /\ pc[v] = "loop"
    /\ idx[v] > Len(rows[v])
    /\ result' = [result EXCEPT ![v] =
            IF v = "index" THEN ReturnIndex(finalLog[v]) ELSE ReturnPart(finalLog[v])]
    /\ pc' = [pc EXCEPT ![v] = "done"]
    /\ UNCHANGED <<file, responses, rows, idx, finalLog, calls, inflight>>

Next == \E v \in Variants : Submit(v) \/ NextRow(v) \/ GraphqlSettles(v) \/ Finish(v)

Spec == Init /\ [][Next]_vars

--------------------------------------------------------------------------
(* Reading the submitted file and the outcome, for the properties below.   *)
(* These read the file as it was posted, not the action's own variables.   *)

Required == {"Name", "Key", "Type"}

Decoded == file.kind = "csv" /\ ParseOk(file)
RowCount == IF Decoded THEN Len(file.records) ELSE 0
HeaderComplete == Decoded /\ Required \subseteq Range(file.header)
HeaderLacking == Decoded /\ ~(Required \subseteq Range(file.header))
WellFormed == HeaderComplete /\ RowCount >= 1

Cell(i, h) == file.records[i][ColumnOf(file.header, h)]

Blank(s) == \A j \in 1..Len(s) : s[j] = " "

\* s without the blanks before its first and after its last other character
Stripped(s) ==
    IF Blank(s) THEN <<>>
    ELSE LET solid == {j \in 1..Len(s) : s[j] # " "}
             first == CHOOSE j \in solid : \A m \in solid : j <= m
             last == CHOOSE j \in solid : \A m \in solid : j >= m
         IN  SubSeq(s, first, last)

\* Row i of a well-formed file lacks a name, a key or a type.
Incomplete(i) == \E h \in Required : Blank(Cell(i, h))

NameOf(i) == Stripped(Cell(i, "Name"))
KeyOf(i) == Stripped(Cell(i, "Key"))
TypeOf(i) == Stripped(Cell(i, "Type"))
DescOf(i) ==
    IF "Description" \in Range(file.header) THEN Stripped(Cell(i, "Description")) ELSE <<>>

\* Row i of route v has its line.
Handled(v, i) == i \in 1..RowCount /\ i < idx[v] /\ pc[v] \in {"loop", "await", "done"}

LineAt(v, i) == IF i \in 1..Len(finalLog[v]) THEN finalLog[v][i] ELSE <<"(no line)">>

CallsFor(v, i) == {c \in 1..Len(calls[v]) : calls[v][c].row = i}

\* The answers given to the calls route v made for row i.
AnswersFor(v, i) == {responses[c] : c \in CallsFor(v, i) \cap (1..Len(responses))}

Inner(json) == Get(Get(json, "data"), "metafieldDefinitionCreate")
CarriesCreated(json) == Get(Inner(json), "createdDefinition").t = "object"
ErrorTexts(json) ==
    LET e == Get(Inner(json), "userErrors")
    IN  IF e.t = "array" THEN [j \in 1..Len(e.items) |-> e.items[j].fields.message.s]
        ELSE <<>>

RECURSIVE Listed(_, _)
Listed(texts, j) ==
    IF j > Len(texts) THEN <<>>
    ELSE (IF j > 1 THEN <<", ">> ELSE <<>>) \o texts[j] \o Listed(texts, j + 1)

RowLineHeads ==
    {"(check) Created metafield: ", "(warn) ", "(warn) Unknown response for ",
     "(x) Failed for "}

\* A line some outcome of row i gives: it opens as one of the four row lines
\* do and names row i.
LineOfRow(line, i) ==
    IF Incomplete(i) THEN line = <<"(warn) Skipped row -- missing name/key/type">>
    ELSE /\ Len(line) >= 1 + Len(NameOf(i))
         /\ line[1] \in RowLineHeads
         /\ SubSeq(line, 2, 1 + Len(NameOf(i))) = NameOf(i)

Completed(v) == pc[v] = "done" /\ "log" \in DOMAIN result[v]

--------------------------------------------------------------------------
\* C1: in both routes, a CSV that decodes to N >= 1 rows under a header with
\* Name, Key and Type returns a log of exactly N entries, entry i being the
\* line of input row i, whatever the rows' outcomes were.
C1_LogMatchesRows ==
    \A v \in Variants :
        (Completed(v) /\ WellFormed) =>
            /\ Len(result[v].log) = RowCount
            /\ \A i \in 1..RowCount :
                  i <= Len(result[v].log) => LineOfRow(result[v].log[i], i)

\* A two-row file, its first row skipped and its second answered, returned.
C1_Witness ==
    \E v \in Variants :
        /\ Completed(v) /\ WellFormed /\ RowCount = 2
        /\ Incomplete(1) /\ ~Incomplete(2)
        /\ Len(calls[v]) = 1 /\ NameOf(2) = <<"b">>

\* C2: in both routes, a row whose Name, Key or Type is empty or blank gets
\* the one skip line at its place in the log and no admin.graphql call,
\* whatever the other rows hold.
C2_SkipLineNoCall ==
    \A v \in Variants :
        WellFormed =>
            /\ pc[v] \in {"loop", "await"} => Len(finalLog[v]) = idx[v] - 1
            /\ \A i \in 1..RowCount :
                  Incomplete(i) =>
                      /\ CallsFor(v, i) = {}
                      /\ Handled(v, i) =>
                            LineAt(v, i) = <<"(warn) Skipped row -- missing name/key/type">>

\* A blank-key row was skipped after a complete row had its call.
C2_Witness ==
    \E v \in Variants :
        /\ WellFormed /\ RowCount = 2 /\ pc[v] = "done"
        /\ ~Incomplete(1) /\ Cell(2, "Key") = <<" ">>
        /\ Len(calls[v]) = 1 /\ Len(finalLog[v]) = 2

InvalidFirstLine == <<"(x) Invalid CSV format.">>

\* C3 as stated: in both routes, a CSV whose header lacks Name, Key or Type
\* returns the fixed log that opens with the invalid-format line and makes
\* no call, however many data rows it has.
C3_AsStated ==
    \A v \in Variants :
        (HeaderLacking /\ file.header # <<>> /\ Completed(v)) =>
            /\ result[v].log[1] = InvalidFirstLine
            /\ calls[v] = <<>>

\* C3 amended: the same for a CSV with at least one data row; with or
\* without data rows no call is made, and a complete header with more
\* columns does not give that log.
C3_HeaderLackingLog ==
    \A v \in Variants :
        /\ HeaderLacking => calls[v] = <<>>
        /\ (HeaderLacking /\ Completed(v) /\ RowCount >= 1) =>
              /\ result[v].log[1] = InvalidFirstLine
              /\ result[v].log =
                    IF v = "index"
                    THEN << InvalidFirstLine,
                            <<"This app only accepts a Metafield Definitions CSV.">>,
                            <<"Required columns:">>,
                            <<"Name, Key, Type, Description">>, <<>>, <<>>, <<>> >>
                    ELSE << InvalidFirstLine, <<"Required columns:">>,
                            <<"Name, Key, Type, Description">> >>
        /\ (WellFormed /\ Completed(v)) => result[v].log[1] # InvalidFirstLine

\* Both routes returned on a two-row file whose header has name in lower case.
C3_Witness ==
    /\ HeaderLacking /\ RowCount = 2 /\ "name" \in Range(file.header)
    /\ \A v \in Variants : Completed(v) /\ result[v].log[1] = InvalidFirstLine

\* C4: in each route, a CSV with no data row returns the empty-file log and
\* makes no call, whatever its header.
C4_EmptyFileLog ==
    \A v \in Variants :
        (Decoded /\ RowCount = 0 /\ Completed(v)) =>
            /\ result[v].log = << <<"(x) CSV file is empty">> >>
            /\ calls[v] = <<>>

--------------------------------------------------------------------------
(* The service's reading of a mutation text: the four string literals of   *)
(* the definition, each from its opening double quote to the first double  *)
(* quote that no backslash escapes.                                        *)

Unread == [ok |-> FALSE, value |-> <<>>, next |-> 0]

\* The characters of a literal from position j on.  A backslash stands with
\* the double quote or backslash after it for that character; a piece of the
\* template, or the end of the text, inside a literal ends the reading.
RECURSIVE ReadChars(_, _, _)
ReadChars(m, j, acc) ==
    IF j > Len(m) THEN Unread
    ELSE IF m[j] = Quote THEN [ok |-> TRUE, value |-> acc, next |-> j + 1]
    ELSE IF m[j] = Backslash
    THEN IF j + 1 <= Len(m) /\ m[j + 1] \in {Quote, Backslash}
         THEN ReadChars(m, j + 2, Append(acc, m[j + 1]))
         ELSE Unread
    ELSE IF m[j] \in {TplName, TplKey, TplType, TplDescription, TplEnd} THEN Unread
    ELSE ReadChars(m, j + 1, Append(acc, m[j]))

\* The literal that follows the template piece tpl at position j.
ReadField(m, j, tpl) ==
    IF j >= 1 /\ j + 1 <= Len(m) /\ m[j] = tpl /\ m[j + 1] = Quote
    THEN ReadChars(m, j + 2, <<>>)
    ELSE Unread

ReadMutation(m) ==
    LET n == ReadField(m, 1, TplName)
        k == ReadField(m, n.next, TplKey)
        t == ReadField(m, k.next, TplType)
        d == ReadField(m, t.next, TplDescription)
    IN  [ok |-> n.ok /\ k.ok /\ t.ok /\ d.ok /\ d.next = Len(m) /\ m[Len(m)] = TplEnd,
         name |-> n.value, key |-> k.value, type |-> t.value, description |-> d.value]

\* C5: for every validated row, the mutation text sent reads back as the
\* row's trimmed Name, Key, Type and Description: no value ends its literal.
C5_ValuesStayInLiterals ==
    \A v \in Variants :
        WellFormed =>
            \A c \in 1..Len(calls[v]) :
                LET i == calls[v][c].row
                IN  ReadMutation(calls[v][c].mutation) =
                        [ok |-> TRUE, name |-> NameOf(i), key |-> KeyOf(i),
                         type |-> TypeOf(i), description |-> DescOf(i)]

\* The same for the route that escapes, alone.
C5_PartValuesStayInLiterals ==
    WellFormed =>
        \A c \in 1..Len(calls["part"]) :
            LET i == calls["part"][c].row
            IN  ReadMutation(calls["part"][c].mutation) =
                    [ok |-> TRUE, name |-> NameOf(i), key |-> KeyOf(i),
                     type |-> TypeOf(i), description |-> DescOf(i)]

\* C6: for a validated row with trimmed name n and key k, an answer with a
\* createdDefinition gives exactly the created line of n and k, and an
\* answer with none and a non-empty userErrors gives exactly the line of n
\* and all the messages, in the answer's order, joined by ", ".
C6_CreatedAndErrorLines ==
    \A v \in Variants :
        WellFormed =>
            \A i \in 1..RowCount :
                (Handled(v, i) /\ ~Incomplete(i)) =>
                    \A a \in AnswersFor(v, i) :
                        a.kind = "json" =>
                            /\ CarriesCreated(a.json) =>
                                  LineAt(v, i) = <<"(check) Created metafield: ">>
                                      \o NameOf(i) \o <<" (">> \o KeyOf(i) \o <<")">>
                            /\ (~CarriesCreated(a.json) /\ ErrorTexts(a.json) # <<>>) =>
                                  LineAt(v, i) = <<"(warn) ">> \o NameOf(i) \o <<" -> ">>
                                      \o Listed(ErrorTexts(a.json), 1)

\* Both routes logged a padded row as created and the row after it with its
\* two user errors; the created answer carried a user error as well.
C6_Witness ==
    /\ WellFormed /\ RowCount = 2 /\ Len(responses) = 2
    /\ NameOf(1) = <<"b">> /\ Cell(1, "Name") # NameOf(1)
    /\ responses[1].kind = "json"
    /\ CarriesCreated(responses[1].json) /\ ErrorTexts(responses[1].json) # <<>>
    /\ responses[2].kind = "json" /\ Len(ErrorTexts(responses[2].json)) = 2
    /\ ~CarriesCreated(responses[2].json)
    /\ \A v \in Variants : pc[v] = "done" /\ Len(calls[v]) = 2

\* C7: in both routes, an answer that came back without throwing and has no
\* data, no metafieldDefinitionCreate, or neither a createdDefinition nor a
\* non-empty userErrors, gives the row the unknown-response line.
C7_UnknownShapeLine ==
    \A v \in Variants :
        WellFormed =>
            \A i \in 1..RowCount :
                (Handled(v, i) /\ ~Incomplete(i)) =>
                    \A a \in AnswersFor(v, i) :
                        (a.kind = "json" /\ ~CarriesCreated(a.json)
                            /\ ErrorTexts(a.json) = <<>>) =>
                                LineAt(v, i) = <<"(warn) Unknown response for ">> \o NameOf(i)

\* C8: within one submission every validated row gets exactly one call and
\* no other row gets any, the calls go out in row order with at most one in
\* flight, and neither user errors nor an exception brings a second call for
\* a row or keeps a later row from its call.
C8_OneCallPerRowInOrder ==
    \A v \in Variants :
        WellFormed =>
            /\ inflight[v] <= 1
            /\ \A c \in 1..Len(calls[v]) :
                  /\ calls[v][c].row \in 1..RowCount
                  /\ ~Incomplete(calls[v][c].row)
                  /\ \A d \in 1..Len(calls[v]) : c < d => calls[v][c].row < calls[v][d].row
            /\ \A i \in 1..RowCount :
                  (Handled(v, i) /\ ~Incomplete(i)) => Cardinality(CallsFor(v, i)) = 1
            /\ pc[v] = "done" => inflight[v] = 0 /\ idx[v] = RowCount + 1

\* A route finished a two-row file of which the first row's call threw and
\* the second row's brought user errors.
C8_Witness ==
    \E v \in Variants :
        /\ WellFormed /\ RowCount = 2 /\ pc[v] = "done"
        /\ Len(calls[v]) = 2 /\ Len(responses) = 2
        /\ responses[1].kind = "throw"
        /\ responses[2].kind = "json" /\ ErrorTexts(responses[2].json) # <<>>
        /\ ~CarriesCreated(responses[2].json)

\* The action of the route with a status stopped before its row loop.
ShortCircuited == file = NoFile \/ (Decoded /\ (RowCount = 0 \/ HeaderLacking))

\* C9: the route that returns a status returns "error" exactly when it
\* stopped before the row loop (no file, no row, a required column lacking),
\* having made no call, and "success" otherwise, whatever became of the rows.
C9_StatusIsStructural ==
    pc["part"] = "done" =>
        /\ "status" \in DOMAIN result["part"]
        /\ result["part"].status = (IF ShortCircuited THEN "error" ELSE "success")
        /\ ShortCircuited => calls["part"] = <<>>

\* It returned "success" on a file none of whose rows was created: one
\* skipped and one whose call threw.
C9_Witness ==
    /\ pc["part"] = "done" /\ WellFormed /\ RowCount = 2
    /\ result["part"].status = "success"
    /\ Incomplete(1) /\ ~Incomplete(2)
    /\ Len(responses) = 1 /\ responses[1].kind = "throw"

\* No cell of the file holds a backslash or a double quote.
NoSpecials ==
    \A i \in 1..RowCount : \A c \in 1..Len(file.records[i]) :
        \A j \in 1..Len(file.records[i][c]) :
            file.records[i][c][j] \notin {Backslash, Quote}

\* Every answer so far threw or has a data.metafieldDefinitionCreate object.
AnswersShaped ==
    \A c \in 1..Len(responses) :
        responses[c].kind = "throw" \/ Inner(responses[c].json).t = "object"

Mutations(v) == [c \in 1..Len(calls[v]) |-> calls[v][c].mutation]

\* C10: on a well-formed file without backslash or double quote, and answers
\* that each throw or have a data.metafieldDefinitionCreate object, the two
\* routes send the same mutation texts in the same order and return the
\* same log.
C10_RoutesAgree ==
    (WellFormed /\ NoSpecials /\ AnswersShaped
        /\ Completed("index") /\ Completed("part")) =>
            /\ Mutations("index") = Mutations("part")
            /\ result["index"].log = result["part"].log

\* Both routes finished a file of two padded rows, one call answered with
\* user errors and one that threw.
C10_Witness ==
    /\ WellFormed /\ NoSpecials /\ AnswersShaped /\ RowCount = 2
    /\ Completed("index") /\ Completed("part")
    /\ Len(calls["index"]) = 2 /\ Len(responses) = 2
    /\ Cell(1, "Name") = <<" ", "b", " ">>
    /\ \E c \in 1..2 : responses[c].kind = "throw"
    /\ \E c \in 1..2 : responses[c].kind = "json" /\ ErrorTexts(responses[c].json) # <<>>

====
